---------------------------- MODULE Spec2Model ----------------------------
(***************************************************************************)
(* Model of parse_investments.py: the six value-cleaning functions and the *)
(* loop that turns the rows of the spreadsheet into INSERT statements.     *)
(*                                                                         *)
(* Text is a sequence of one-character strings.  A Python value is a       *)
(* record tagged by k:                                                     *)
(*   "missing"  NaN / None as a raw cell (pd.isna is true)                 *)
(*   "none"     Python None returned by a function (Absent)                *)
(*   "str"      s: the characters                                          *)
(*   "float"    cls "fin": sg * m * 10^x, m without trailing zeros;        *)
(*              cls "inf": sg * infinity;  cls "nan"                       *)
(*   "int"      sg * m * 10^x with x >= 0                                  *)
(*   "bool"     b                                                          *)
(*   "date"     y, mo, d                                                   *)
(*   "raise"    exc: the exception that leaves the call                    *)
(* A finite float stands for the double nearest to its decimal; with the   *)
(* at most nine significant digits the inputs here have, distinct decimals *)
(* are distinct doubles and truncation of the double is truncation of the  *)
(* decimal.                                                                *)
(* Below the normal range (under 2.2e-308) and for integers from 2^53 on   *)
(* the record still names the double, but str() of it is not modelled      *)
(* digit by digit; no cell of the model lies there.                        *)
(*                                                                         *)
(* The output file is the sequence of statements written to it; an INSERT  *)
(* statement keeps its column list and its value list unjoined.  An        *)
(* exception that leaves a cleaning function ends the script (pc =         *)
(* "aborted"): nothing in the script catches it.                           *)
(***************************************************************************)
EXTENDS Integers, Sequences, FiniteSets, TLC

VARIABLES
    arg,       \* normalizer: the raw cell value handed to a function
    fn,        \* normalizer: the function that was called, "none" before
    ret,       \* normalizer: what the call produced
    header,    \* emitter: clean_df.columns, the column names of the file
    data,      \* emitter: the rows below the two header rows
    clean_df,  \* emitter: the rows kept by the filter
    idx,       \* emitter: number of rows of clean_df the loop has taken
    entry,     \* emitter: position in column_mapping inside a row
    columns,   \* emitter: the row's column list
    values,    \* emitter: the row's value list
    f,         \* emitter: the statements written to insert_investments.sql
    pc         \* emitter: where the script is

vars == <<arg, fn, ret, header, data, clean_df, idx, entry, columns, values, f, pc>>

normVars == <<arg, fn, ret>>

emitVars == <<header, data, clean_df, idx, entry, columns, values, f, pc>>

---------------------------------------------------------------------------
\* Characters and text

Digits == <<"0", "1", "2", "3", "4", "5", "6", "7", "8", "9">>

IsDigit(c) == \E i \in 1..10 : Digits[i] = c

DigitVal(c) == (CHOOSE i \in 1..10 : Digits[i] = c) - 1

DigitChr(n) == Digits[n + 1]

\* str.isspace for the characters of the model
IsSpace(c) == c \in {" ", "\t", "\n"}

UpperCase == <<"A", "B", "C", "D", "E", "F", "G", "H", "I", "J", "K", "L", "M",
               "N", "O", "P", "Q", "R", "S", "T", "U", "V", "W", "X", "Y", "Z">>

LowerCase == <<"a", "b", "c", "d", "e", "f", "g", "h", "i", "j", "k", "l", "m",
               "n", "o", "p", "q", "r", "s", "t", "u", "v", "w", "x", "y", "z">>

\* str.lower on one character
LowerChr(c) ==
    IF \E i \in 1..Len(UpperCase) : UpperCase[i] = c
    THEN LowerCase[CHOOSE i \in 1..Len(UpperCase) : UpperCase[i] = c]
    ELSE c

\* str.lower
Lower(s) == [i \in 1..Len(s) |-> LowerChr(s[i])]

\* x in s, for a character x
Contains(s, c) == \E i \in 1..Len(s) : s[i] = c

\* first position of a character of cs in s, 0 when there is none
FirstIn(s, cs) ==
    IF \E i \in 1..Len(s) : s[i] \in cs
    THEN CHOOSE i \in 1..Len(s) : s[i] \in cs /\ \A j \in 1..(i - 1) : s[j] \notin cs
    ELSE 0

RECURSIVE Strip(_)
\* str.strip
Strip(s) ==
    IF s = <<>> THEN s
    ELSE IF IsSpace(s[1]) THEN Strip(Tail(s))
    ELSE IF IsSpace(s[Len(s)]) THEN Strip(SubSeq(s, 1, Len(s) - 1))
    ELSE s

RECURSIVE Concat(_)
\* ''.join of a sequence of texts
Concat(ss) == IF ss = <<>> THEN <<>> ELSE Head(ss) \o Concat(Tail(ss))

\* re.sub(r'[,$\s]', '', s)
RemoveCurrencyNoise(s) == SelectSeq(s, LAMBDA c : c \notin {",", "$"} /\ ~IsSpace(c))

\* s.replace(a, b) for a character a and a text b
Replace(s, a, b) == Concat([i \in 1..Len(s) |-> IF s[i] = a THEN b ELSE <<s[i]>>])

AllDigits(s) == \A i \in 1..Len(s) : IsDigit(s[i])

RECURSIVE ToNat(_)
ToNat(s) == IF s = <<>> THEN 0 ELSE ToNat(SubSeq(s, 1, Len(s) - 1)) * 10 + DigitVal(s[Len(s)])

RECURSIVE Pow10(_)
Pow10(n) == IF n <= 0 THEN 1 ELSE 10 * Pow10(n - 1)

RECURSIVE NatDigits(_)
\* the decimal digits of a natural number, "0" for 0
NatDigits(n) == IF n < 10 THEN <<DigitChr(n)>> ELSE NatDigits(n \div 10) \o <<DigitChr(n % 10)>>

Zeros(n) == [i \in 1..n |-> "0"]

---------------------------------------------------------------------------
\* Python values

Missing == [k |-> "missing"]

None == [k |-> "none"]

Str(s) == [k |-> "str", s |-> s]

Bool(b) == [k |-> "bool", b |-> b]

Date(y, mo, d) == [k |-> "date", y |-> y, mo |-> mo, d |-> d]

Raise(exc) == [k |-> "raise", exc |-> exc]

Inf(sg) == [k |-> "float", cls |-> "inf", sg |-> sg, m |-> 0, x |-> 0]

NaN == [k |-> "float", cls |-> "nan", sg |-> 1, m |-> 0, x |-> 0]

RECURSIVE TrailingZeros(_)
\* how many zeros end the decimal digits of m > 0
TrailingZeros(m) == IF m % 10 # 0 THEN 0 ELSE 1 + TrailingZeros(m \div 10)

NumDigits(m) == Len(NatDigits(m))

\* the finite number sg * m * 10^x in normal form (m = 0, or m ends in a non-zero digit)
Fin(kind, sg, m, x) ==
    IF m = 0
    THEN [k |-> kind, cls |-> "fin", sg |-> sg, m |-> 0, x |-> 0]
    ELSE [k |-> kind, cls |-> "fin", sg |-> sg,
          m |-> m \div Pow10(TrailingZeros(m)), x |-> x + TrailingZeros(m)]

\* m * 10^x (m > 0, at most nine digits) rounds to infinity: it is at least
\* 2^1024 - 2^970 = 1.797693134862315807...e308
Overflows(m, x) ==
    LET n == NumDigits(m)
    IN  \/ n + x > 309
        \/ n + x = 309 /\ m * Pow10(9 - n) >= 179769314

\* m * 10^x (m > 0, at most nine digits) rounds to zero: it is at most
\* 2^-1075 = 2.470328229206232720...e-324
Underflows(m, x) ==
    LET n == NumDigits(m)
    IN  \/ n + x < -323
        \/ n + x = -323 /\ m * Pow10(9 - n) <= 247032822

\* the double nearest to the decimal sg * m * 10^x
Double(sg, m, x) ==
    IF m = 0 THEN Fin("float", sg, 0, 0)
    ELSE IF Overflows(m, x) THEN Inf(sg)
    ELSE IF Underflows(m, x) THEN Fin("float", sg, 0, 0)
    ELSE Fin("float", sg, m, x)

\* an int literal of the model
Int_(n) == Fin("int", IF n < 0 THEN -1 ELSE 1, IF n < 0 THEN -n ELSE n, 0)

\* a float literal of the model: n / 10^d
Float_(n, d) == Double(IF n < 0 THEN -1 ELSE 1, IF n < 0 THEN -n ELSE n, -d)

---------------------------------------------------------------------------
\* float(str), int(float), str(number)

\* the underscores Python allows in a numeric literal: between two digits
StripUnderscores(s) ==
    SelectSeq([i \in 1..Len(s) |->
                  IF s[i] = "_" /\ i > 1 /\ i < Len(s) /\ IsDigit(s[i - 1]) /\ IsDigit(s[i + 1])
                  THEN "" ELSE s[i]],
              LAMBDA c : c # "")

\* digits [. digits] [e [sign] digits] with a digit in the mantissa
ParseDecimal(sg, t) ==
    LET epos == FirstIn(t, {"e", "E"})
        mant == IF epos = 0 THEN t ELSE SubSeq(t, 1, epos - 1)
        expo == IF epos = 0 THEN <<>> ELSE SubSeq(t, epos + 1, Len(t))
        esg  == IF expo # <<>> /\ expo[1] = "-" THEN -1 ELSE 1
        edig == IF expo # <<>> /\ expo[1] \in {"+", "-"} THEN Tail(expo) ELSE expo
        dot  == FirstIn(mant, {"."})
        ip   == IF dot = 0 THEN mant ELSE SubSeq(mant, 1, dot - 1)
        fp   == IF dot = 0 THEN <<>> ELSE SubSeq(mant, dot + 1, Len(mant))
    IN  IF /\ AllDigits(ip) /\ AllDigits(fp) /\ Len(ip) + Len(fp) >= 1
           /\ (epos = 0 \/ (edig # <<>> /\ AllDigits(edig)))
        THEN Double(sg, ToNat(ip \o fp), esg * ToNat(edig) - Len(fp))
        ELSE Raise("ValueError")

\* float(s) for a text s
ParseFloat(s) ==
    LET t0  == Strip(s)
        sg  == IF t0 # <<>> /\ t0[1] = "-" THEN -1 ELSE 1
        t1  == IF t0 # <<>> /\ t0[1] \in {"+", "-"} THEN Tail(t0) ELSE t0
        low == Lower(t1)
        t2  == StripUnderscores(t1)
    IN  IF low \in {<<"i", "n", "f">>, <<"i", "n", "f", "i", "n", "i", "t", "y">>} THEN Inf(sg)
        ELSE IF low = <<"n", "a", "n">> THEN NaN
        ELSE IF Contains(t2, "_") THEN Raise("ValueError")
        ELSE ParseDecimal(sg, t2)

\* IntOfFloat rounding toward minus infinity instead of toward zero
IntOfFloatFloor(x) ==
    IF x.cls = "inf" THEN Raise("OverflowError")
    ELSE IF x.cls = "nan" THEN Raise("ValueError")
    ELSE IF x.x >= 0 THEN Fin("int", IF x.m = 0 THEN 1 ELSE x.sg, x.m, x.x)
    ELSE LET q == IF -x.x > 9 THEN 0 ELSE x.m \div Pow10(-x.x)
         IN  IF x.sg < 0 THEN Fin("int", -1, q + 1, 0) ELSE Fin("int", 1, q, 0)

\* int(x) for a float x: truncation; infinity and NaN have no integer
IntOfFloat(x) ==
    IF x.cls = "inf" THEN Raise("OverflowError")
    ELSE IF x.cls = "nan" THEN Raise("ValueError")
    ELSE IF x.x >= 0 THEN Fin("int", IF x.m = 0 THEN 1 ELSE x.sg, x.m, x.x)
    ELSE LET q == IF -x.x > 9 THEN 0 ELSE x.m \div Pow10(-x.x)
         IN  Fin("int", IF q = 0 THEN 1 ELSE x.sg, q, 0)

\* str(x) for an int x
StrInt(x) == (IF x.sg < 0 THEN <<"-">> ELSE <<>>) \o NatDigits(x.m) \o Zeros(x.x)

\* repr of a finite float with digits D and decimal point after position dp:
\* fixed notation for -4 < dp <= 16, else exponent notation
ReprFinite(D, dp) ==
    IF dp > -4 /\ dp <= 16
    THEN IF dp <= 0 THEN <<"0", ".">> \o Zeros(-dp) \o D
         ELSE IF dp >= Len(D) THEN D \o Zeros(dp - Len(D)) \o <<".", "0">>
         ELSE SubSeq(D, 1, dp) \o <<".">> \o SubSeq(D, dp + 1, Len(D))
    ELSE LET e  == dp - 1
             ae == IF e < 0 THEN -e ELSE e
         IN  <<D[1]>> \o (IF Len(D) > 1 THEN <<".">> \o Tail(D) ELSE <<>>)
             \o <<"e", IF e < 0 THEN "-" ELSE "+">>
             \o (IF ae < 10 THEN <<"0">> ELSE <<>>) \o NatDigits(ae)

\* str(x) for a float x
StrFloat(x) ==
    IF x.cls = "nan" THEN <<"n", "a", "n">>
    ELSE (IF x.sg < 0 THEN <<"-">> ELSE <<>>) \o
         (IF x.cls = "inf" THEN <<"i", "n", "f">>
          ELSE IF x.m = 0 THEN <<"0", ".", "0">>
          ELSE ReprFinite(NatDigits(x.m), NumDigits(x.m) + x.x))

\* str(value) for a raw cell value or a returned value
PyStr(v) ==
    CASE v.k = "str"   -> v.s
      [] v.k = "float" -> StrFloat(v)
      [] v.k = "int"   -> StrInt(v)
      [] v.k = "bool"  -> IF v.b THEN <<"T", "r", "u", "e">> ELSE <<"F", "a", "l", "s", "e">>
      [] v.k = "date"  ->
            Zeros(4 - NumDigits(v.y)) \o NatDigits(v.y) \o <<"-">>
            \o Zeros(2 - NumDigits(v.mo)) \o NatDigits(v.mo) \o <<"-">>
            \o Zeros(2 - NumDigits(v.d)) \o NatDigits(v.d)
      [] v.k = "none"  -> <<"N", "o", "n", "e">>
      [] v.k = "missing" -> <<"n", "a", "n">>

---------------------------------------------------------------------------
\* datetime.strptime(value, fmt).date() for the three formats of clean_date

\* the texts the directive %m matches: 1[0-2] | 0[1-9] | [1-9]
IsMonthField(t) ==
    \/ Len(t) = 2 /\ t[1] = "1" /\ t[2] \in {"0", "1", "2"}
    \/ Len(t) = 2 /\ t[1] = "0" /\ IsDigit(t[2]) /\ t[2] # "0"
    \/ Len(t) = 1 /\ IsDigit(t[1]) /\ t[1] # "0"

\* the texts the directive %d matches: 3[0-1] | [1-2]\d | 0[1-9] | [1-9] | space [1-9]
IsDayField(t) ==
    \/ Len(t) = 2 /\ t[1] = "3" /\ t[2] \in {"0", "1"}
    \/ Len(t) = 2 /\ t[1] \in {"1", "2"} /\ IsDigit(t[2])
    \/ Len(t) = 2 /\ t[1] \in {"0", " "} /\ IsDigit(t[2]) /\ t[2] # "0"
    \/ Len(t) = 1 /\ IsDigit(t[1]) /\ t[1] # "0"

\* the number a %m or %d field stands for
FieldVal(t) == ToNat(SelectSeq(t, IsDigit))

\* %Y is four digits; %y is two digits, 69..99 in 19xx and 00..68 in 20xx
YearVal(t, fmtY) ==
    IF fmtY = "Y" THEN ToNat(t)
    ELSE IF ToNat(t) <= 68 THEN 2000 + ToNat(t) ELSE 1900 + ToNat(t)

IsYearField(t, fmtY) == AllDigits(t) /\ Len(t) = (IF fmtY = "Y" THEN 4 ELSE 2)

IsLeap(y) == y % 4 = 0 /\ (y % 100 # 0 \/ y % 400 = 0)

DaysInMonth(y, mo) ==
    IF mo = 2 THEN (IF IsLeap(y) THEN 29 ELSE 28)
    ELSE IF mo \in {4, 6, 9, 11} THEN 30 ELSE 31

\* datetime.date(y, mo, d): ValueError outside the calendar
MakeDate(y, mo, d) ==
    IF y >= 1 /\ y <= 9999 /\ mo >= 1 /\ mo <= 12 /\ d >= 1 /\ d <= DaysInMonth(y, mo)
    THEN Date(y, mo, d)
    ELSE Raise("ValueError")

\* the three fields of s around exactly two separators, << >> when s has another shape
Fields(s, sep) ==
    LET p1 == FirstIn(s, {sep})
        r1 == IF p1 = 0 THEN <<>> ELSE SubSeq(s, p1 + 1, Len(s))
        p2 == FirstIn(r1, {sep})
        r2 == IF p2 = 0 THEN <<>> ELSE SubSeq(r1, p2 + 1, Len(r1))
    IN  IF p1 = 0 \/ p2 = 0 \/ Contains(r2, sep) THEN <<>>
        ELSE <<SubSeq(s, 1, p1 - 1), SubSeq(r1, 1, p2 - 1), r2>>

\* the formats of clean_date, in the order it tries them
DateFormats == <<"%m/%d/%Y", "%m/%d/%y", "%Y-%m-%d">>

\* datetime.strptime(s, fmt).date(): the date, or ValueError
Strptime(s, fmt) ==
    LET fs == Fields(s, IF fmt = "%Y-%m-%d" THEN "-" ELSE "/")
        fy == IF fmt = "%m/%d/%y" THEN "y" ELSE "Y"
        ty == IF fs = <<>> THEN <<>> ELSE IF fmt = "%Y-%m-%d" THEN fs[1] ELSE fs[3]
        tm == IF fs = <<>> THEN <<>> ELSE IF fmt = "%Y-%m-%d" THEN fs[2] ELSE fs[1]
        td == IF fs = <<>> THEN <<>> ELSE IF fmt = "%Y-%m-%d" THEN fs[3] ELSE fs[2]
    IN  IF fs # <<>> /\ IsYearField(ty, fy) /\ IsMonthField(tm) /\ IsDayField(td)
        THEN MakeDate(YearVal(ty, fy), FieldVal(tm), FieldVal(td))
        ELSE Raise("ValueError")

---------------------------------------------------------------------------
\* The value normalizer

\* IsBlank without the test for the empty string
IsBlankMissingOnly(value) ==
    \/ value.k = "missing"
    \/ value.k = "float" /\ value.cls = "nan"

\* pd.isna(value) or value == ''
IsBlank(value) ==
    \/ value.k = "missing"
    \/ value.k = "float" /\ value.cls = "nan"
    \/ value.k = "str" /\ value.s = <<>>

\* try: return float(s)  except (ValueError, TypeError): return None
FloatOrNone(s) == IF ParseFloat(s).k = "raise" THEN None ELSE ParseFloat(s)

clean_currency(value) ==
    IF IsBlank(value) THEN None
    ELSE IF value.k = "str"
    THEN LET cleaned == RemoveCurrencyNoise(value.s)
             negated == IF Contains(cleaned, "(") /\ Contains(cleaned, ")")
                        THEN Replace(Replace(cleaned, "(", <<"-">>), ")", <<>>)
                        ELSE cleaned
         IN  FloatOrNone(negated)
    ELSE value

clean_percentage(value) ==
    IF IsBlank(value) THEN None
    ELSE IF value.k = "str" /\ Contains(value.s, "%")
    THEN FloatOrNone(Replace(value.s, "%", <<>>))
    ELSE value

RECURSIVE TryFormats(_, _)
\* the loop over the formats from position i: the first one that parses wins
TryFormats(s, i) ==
    IF i > Len(DateFormats) THEN None
    ELSE IF Strptime(s, DateFormats[i]).k = "date" THEN Strptime(s, DateFormats[i])
    ELSE TryFormats(s, i + 1)

\* clean_date giving up after the first format
clean_date_first_only(value) ==
    IF IsBlank(value) THEN None
    ELSE IF value.k = "str" /\ Strptime(value.s, DateFormats[1]).k = "date"
    THEN Strptime(value.s, DateFormats[1])
    ELSE None

clean_date(value) ==
    IF IsBlank(value) THEN None
    ELSE IF value.k = "str" THEN TryFormats(value.s, 1)
    ELSE None

clean_boolean(value) ==
    IF IsBlank(value) THEN None
    ELSE IF value.k = "str"
    THEN LET val == Strip(Lower(value.s))
         IN  IF val \in {<<"y", "e", "s">>, <<"t", "r", "u", "e">>, <<"1">>} THEN Bool(TRUE)
             ELSE IF val \in {<<"n", "o">>, <<"f", "a", "l", "s", "e">>, <<"0">>} THEN Bool(FALSE)
             ELSE None
    ELSE None

\* int(float(str(value))): ValueError is caught, OverflowError is not
clean_integer(value) ==
    IF IsBlank(value) THEN None
    ELSE LET x == ParseFloat(PyStr(value))
             n == IF x.k = "raise" THEN x ELSE IntOfFloat(x)
         IN  IF n.k = "raise" /\ n.exc \in {"ValueError", "TypeError"} THEN None ELSE n

clean_decimal(value) ==
    IF IsBlank(value) THEN None
    ELSE FloatOrNone(PyStr(value))

---------------------------------------------------------------------------
\* The static configuration of the row emitter

\* the pairs (spreadsheet column, SQL column), in the order of the dict
column_mapping ==
    <<
    <<"Asset ID + Name", "asset_id_plus_name">>, <<"Asset ID", "asset_id">>,
    <<"Portfolio Name", "portfolio_name">>, <<"Name - Reducd", "name_reduced">>,
    <<"Name - CHFA", "name_chfa">>, <<"Address", "address">>,
    <<"City", "city">>, <<"State", "state">>,
    <<"ZIP Code", "zip_code">>, <<"Address - Full", "address_full">>,
    <<"Unit Total", "unit_total">>, <<"Units", "units">>,
    <<"Comm Units", "comm_units">>, <<"Beds", "beds">>,
    <<"Baths", "baths">>, <<"Half Baths", "half_baths">>,
    <<"Rooms", "rooms">>, <<"Property Type", "property_type">>,
    <<"Scope of Work - Orig", "scope_of_work">>, <<"New Const?", "new_construction">>,
    <<"Sect 8 Units?", "section_8_units">>, <<"PBV", "pbv">>,
    <<"Leasing Status - Initial", "leasing_status">>, <<"Owner LLC", "owner_llc">>,
    <<"Manager", "manager">>, <<"Owner LLC co", "owner_llc_co">>,
    <<"EIN", "ein">>, <<"Parcel ID", "parcel_id">>,
    <<"Census Tract", "census_tract">>, <<"Poverty - % Below", "poverty_pct_below">>,
    <<"Qualified Census Tract", "qualified_census_tract">>, <<"Walkscore", "walkscore">>,
    <<"Proforma Revenue", "proforma_revenue">>, <<"EGI", "egi">>,
    <<"NOI", "noi">>, <<"Going-in NOI", "going_in_noi">>,
    <<"Going-In Cap Rate", "going_in_cap_rate">>, <<"Proforma Operating Expenses", "proforma_operating_expenses">>,
    <<"Exp - Tax - Prop", "exp_tax_prop">>, <<"Exp - Prop Ins.", "exp_prop_ins">>,
    <<"Exp - Utilities", "exp_utilities">>, <<"Exp - R&M", "exp_rm">>,
    <<"Exp - Payroll", "exp_payroll">>, <<"Exp - Garbage", "exp_garbage">>,
    <<"Exp - PM Fee + Admin", "exp_pm_fee_admin">>, <<"Purchase Price", "purchase_price">>,
    <<"Down Payment", "down_payment">>, <<"APPRAISED VALUE", "appraised_value">>,
    <<"Date Of Last Appraisal", "date_of_last_appraisal">>, <<"Appraisal Firm", "appraisal_firm">>,
    <<"Assessed Value", "assessed_value">>, <<"Assessment Date", "assessment_date">>,
    <<"Debt1 - Initial", "debt1_initial">>, <<"Debt1 - Int Rate", "debt1_int_rate">>,
    <<"Maturity Date", "maturity_date">>, <<"LTV Ratio", "ltv_ratio">>,
    <<"DSV Ratio", "dsv_ratio">>, <<"Debt Service", "debt_service">>,
    <<"Mortgage Holder", "mortgage_holder">>, <<"Built", "built">>,
    <<"Renovated - Last", "renovated_last">>, <<"Building SF", "building_sf">>,
    <<"Building SF - Finished", "building_sf_finished">>, <<"Unit SF - Avg", "unit_sf_avg">>,
    <<"Land SF", "land_sf">>, <<"Stories", "stories">>,
    <<"Roof Type", "roof_type">>, <<"Roof Cover", "roof_cover">>,
    <<"Heat Fuel", "heat_fuel">>, <<"Heat Type", "heat_type">>,
    <<"Heat Sys Count", "heat_sys_count">>, <<"Cooking Fuel", "cooking_fuel">>,
    <<"AC Type - Marketing", "ac_type">>, <<"AC Included", "ac_included">>,
    <<"Parking Spots Count", "parking_spots_count">>, <<"BR - 0", "br_0">>,
    <<"BR - 1", "br_1">>, <<"BR - 2", "br_2">>,
    <<"BR - 3", "br_3">>, <<"BR - 4", "br_4">>,
    <<"Electric - Utility Company", "electric_utility_company">>, <<"Elect Account", "electric_account">>,
    <<"Gas - Utility Company", "gas_utility_company">>, <<"Gas Account", "gas_account">>
    >>

CurrencyColumns ==
    {
    "proforma_revenue", "egi", "noi", "going_in_noi",
    "proforma_operating_expenses", "exp_tax_prop", "exp_prop_ins", "exp_utilities",
    "exp_rm", "exp_payroll", "exp_garbage", "exp_pm_fee_admin",
    "purchase_price", "down_payment", "appraised_value", "assessed_value",
    "debt1_initial", "debt_service"
    }

PercentageColumns ==
    {
    "going_in_cap_rate", "debt1_int_rate", "ltv_ratio", "dsv_ratio",
    "poverty_pct_below"
    }

DateColumns ==
    {
    "date_of_last_appraisal", "assessment_date", "maturity_date"
    }

BooleanColumns ==
    {
    "new_construction", "section_8_units", "ac_included"
    }

IntegerColumns ==
    {
    "unit_total", "units", "comm_units", "beds",
    "half_baths", "walkscore", "built", "renovated_last",
    "building_sf", "building_sf_finished", "unit_sf_avg", "land_sf",
    "stories", "heat_sys_count", "br_0", "br_1",
    "br_2", "br_3", "br_4"
    }

DecimalColumns ==
    {
    "baths", "rooms", "parking_spots_count"
    }

---------------------------------------------------------------------------
\* Rendering of one cell

NULL == <<"N", "U", "L", "L">>

\* str.upper on one character
UpperChr(c) ==
    IF \E i \in 1..Len(LowerCase) : LowerCase[i] = c
    THEN UpperCase[CHOOSE i \in 1..Len(LowerCase) : LowerCase[i] = c]
    ELSE c

\* str.upper
Upper(s) == [i \in 1..Len(s) |-> UpperChr(s[i])]

\* f"'{text}'"
Quoted(s) == <<"'">> \o s \o <<"'">>

\* the declared type of a destination column: the first list that names it
SemanticType(sql_col) ==
    IF sql_col \in CurrencyColumns THEN "Currency"
    ELSE IF sql_col \in PercentageColumns THEN "Percentage"
    ELSE IF sql_col \in DateColumns THEN "Date"
    ELSE IF sql_col \in BooleanColumns THEN "Boolean"
    ELSE IF sql_col \in IntegerColumns THEN "Integer"
    ELSE IF sql_col \in DecimalColumns THEN "Decimal"
    ELSE "Text"

\* the cleaning function of a typed column applied to a value
Clean(type, value) ==
    CASE type = "Currency"   -> clean_currency(value)
      [] type = "Percentage" -> clean_percentage(value)
      [] type = "Date"       -> clean_date(value)
      [] type = "Boolean"    -> clean_boolean(value)
      [] type = "Integer"    -> clean_integer(value)
      [] type = "Decimal"    -> clean_decimal(value)

\* the text of a cleaned value of a typed column
RenderCleaned(type, cleaned_val) ==
    IF cleaned_val = None THEN NULL
    ELSE IF type = "Date" THEN Quoted(PyStr(cleaned_val))
    ELSE IF type = "Boolean" THEN Upper(PyStr(cleaned_val))
    ELSE PyStr(cleaned_val)

\* RenderText without the doubling of the single quotes
RenderTextUnescaped(value) == Quoted(PyStr(value))

\* text fields: single quotes doubled, the result quoted
RenderText(value) == Quoted(Replace(PyStr(value), "'", <<"'", "'">>))

\* what the body of the loop over column_mapping appends to values for one
\* cell: Str(text), or the exception that leaves the cleaning function
RenderCell(sql_col, value) ==
    IF IsBlank(value) THEN Str(NULL)
    ELSE IF SemanticType(sql_col) = "Text" THEN Str(RenderText(value))
    ELSE IF Clean(SemanticType(sql_col), value).k = "raise"
    THEN Clean(SemanticType(sql_col), value)
    ELSE Str(RenderCleaned(SemanticType(sql_col), Clean(SemanticType(sql_col), value)))

---------------------------------------------------------------------------
\* The inputs of the model

\* longest text over Alphabet given to the cleaning functions
MaxLen == 3

\* most rows below the header rows of the spreadsheet
MaxRows == 2

Alphabet == {"1", "5", ".", "-", "(", ")", "%", " ", "e", ",", "$"}

RECURSIVE Texts(_)
\* the texts over Alphabet of length at most n
Texts(n) ==
    IF n = 0 THEN {<<>>}
    ELSE Texts(n - 1) \cup {Append(t, c) : t \in Texts(n - 1), c \in Alphabet}

\* texts named by the documentation of the functions, and their neighbours
SampleTexts ==
    {
    <<"$", "1", ",", "2", "0", "0", ".", "5", "0">>, <<"(", "1", ",", "2", "0", "0", ".", "5", "0", ")">>, <<"(", "5", "0", "0", ")">>,
    <<"1", "2", "0", "0", ".", "5">>, <<"a", "b", "c">>, <<"5", ".", "2", "5", "%">>,
    <<"5", ".", "2", "5">>, <<"4", "2">>, <<"4", "2", ".", "9">>,
    <<"-", "4", "2", ".", "9">>, <<"x", "y", "z">>, <<"i", "n", "f">>,
    <<"-", "i", "n", "f">>, <<"I", "n", "f", "i", "n", "i", "t", "y">>, <<"1", "e", "9", "9", "9">>,
    <<"n", "a", "n">>, <<"N", "a", "N">>, <<"-", "0", ".", "5">>,
    <<"0", ".", "9">>, <<"1", "e", "3">>, <<"1", ".", "5", "e", "1">>,
    <<"1", "2", "e", "-", "1">>, <<"(", ")", "5">>, <<")", "(", "5">>,
    <<"1", "(", "2", ")", "3">>, <<"$", " ", "(", "7", ")">>, <<"(", "7">>,
    <<"Y", "e", "s">>, <<"Y", "E", "S">>, <<"y", "e", "s">>,
    <<"t", "r", "u", "e">>, <<" ", "T", "r", "u", "e", " ">>, <<"N", "o">>,
    <<"n", "o">>, <<"f", "a", "l", "s", "e">>, <<"0">>,
    <<"1">>, <<"m", "a", "y", "b", "e">>, <<"0", "1", "/", "1", "5", "/", "2", "0", "2", "4">>,
    <<"0", "1", "/", "1", "5", "/", "2", "4">>, <<"2", "0", "2", "4", "-", "0", "1", "-", "1", "5">>, <<"1", "5", "/", "0", "1", "/", "2", "0", "2", "4">>,
    <<"1", "/", "5", "/", "2", "0", "2", "4">>, <<"0", "2", "/", "2", "9", "/", "2", "0", "2", "4">>, <<"0", "2", "/", "2", "9", "/", "2", "0", "2", "3">>,
    <<"2", "0", "2", "4", "-", "1", "-", "5">>, <<"0", "1", "/", "1", "5", "/", "6", "8">>, <<"0", "1", "/", "1", "5", "/", "6", "9">>,
    <<"O", "'", "B", "r", "i", "e", "n">>, <<"'", "'">>, <<"5", "%", "%">>,
    <<"1", "_", "0">>
    }

MonthTexts == {<<"0", "1">>, <<"1">>, <<"1", "2">>, <<"1", "3">>, <<"0", "2">>, <<"1", "5">>}

DayTexts == {<<"0", "1">>, <<"5">>, <<"1", "5">>, <<"2", "9">>, <<"3", "0">>, <<"3", "1">>, <<"3", "2">>}

YearTexts == {<<"2", "0", "2", "4">>, <<"2", "0", "2", "3">>, <<"0", "0", "0", "0">>,
              <<"2", "4">>, <<"6", "8">>, <<"6", "9">>}

\* date-like texts: month, day and year texts in both orders around both separators
DateTexts ==
    {mo \o <<sep>> \o d \o <<sep>> \o y : mo \in MonthTexts, d \in DayTexts, y \in YearTexts, sep \in {"/", "-"}}
    \cup
    {y \o <<sep>> \o mo \o <<sep>> \o d : mo \in MonthTexts, d \in DayTexts, y \in YearTexts, sep \in {"/", "-"}}

\* cells the spreadsheet reader typed as numbers
NativeNumbers ==
    {Int_(42), Int_(0), Int_(-7), Float_(429, 1), Float_(-429, 1), Float_(12005, 1), Float_(5, 1), Inf(1), Inf(-1)}

\* the raw cell values given to the cleaning functions
RawValues ==
    {Missing, NaN}
    \cup {Str(s) : s \in Texts(MaxLen) \cup SampleTexts \cup DateTexts}
    \cup NativeNumbers

---------------------------------------------------------------------------
\* The value normalizer as a state machine: one raw value, one call

NormInit ==
    /\ arg \in RawValues
    /\ fn = "none"
    /\ ret = None
    /\ header = {}
    /\ data = <<>>
    /\ clean_df = <<>>
    /\ idx = 0
    /\ entry = 0
    /\ columns = <<>>
    /\ values = <<>>
    /\ f = <<>>
    /\ pc = "norm"

CallCurrency ==
    /\ fn = "none"
    /\ fn' = "clean_currency"
    /\ ret' = clean_currency(arg)
    /\ UNCHANGED <<arg, emitVars>>

CallPercentage ==
    /\ fn = "none"
    /\ fn' = "clean_percentage"
    /\ ret' = clean_percentage(arg)
    /\ UNCHANGED <<arg, emitVars>>

CallDate ==
    /\ fn = "none"
    /\ fn' = "clean_date"
    /\ ret' = clean_date(arg)
    /\ UNCHANGED <<arg, emitVars>>

CallBoolean ==
    /\ fn = "none"
    /\ fn' = "clean_boolean"
    /\ ret' = clean_boolean(arg)
    /\ UNCHANGED <<arg, emitVars>>

CallInteger ==
    /\ fn = "none"
    /\ fn' = "clean_integer"
    /\ ret' = clean_integer(arg)
    /\ UNCHANGED <<arg, emitVars>>

CallDecimal ==
    /\ fn = "none"
    /\ fn' = "clean_decimal"
    /\ ret' = clean_decimal(arg)
    /\ UNCHANGED <<arg, emitVars>>

NormNext ==
    \/ CallCurrency
    \/ CallPercentage
    \/ CallDate
    \/ CallBoolean
    \/ CallInteger
    \/ CallDecimal

NormSpec == NormInit /\ [][NormNext]_vars

---------------------------------------------------------------------------
\* The script as a state machine: read and filter, then one INSERT per row

\* the columns a spreadsheet of the model may have besides Asset ID
HeaderChoices ==
    {
    {},
    {"Portfolio Name"},
    {"Purchase Price"},
    {"LTV Ratio"},
    {"Maturity Date"},
    {"New Const?"},
    {"Units"},
    {"Baths", "Notes"}
    }

AssetIds == {Missing, Str(<<>>), Str(<<"A", "1">>), Str(<<"B", "'", "2">>)}

\* the cells a column of the model may hold besides a missing one
CellsFor(excel_col) ==
    CASE excel_col = "Portfolio Name" ->
            {Str(<<>>), Str(<<"O", "'", "B">>), Str(<<"'">>), Int_(7)}
      [] excel_col = "Purchase Price" ->
            {Str(<<>>), Str(<<"$", "1", ",", "2", "0", "0", ".", "5", "0">>),
             Str(<<"(", "5", "0", "0", ")">>), Str(<<"a", "b", "c">>), Float_(12005, 1)}
      [] excel_col = "LTV Ratio" ->
            {Str(<<>>), Str(<<"5", ".", "2", "5", "%">>), Str(<<"5", ".", "2", "5">>),
             Str(<<"a", "b", "c">>), Int_(42)}
      [] excel_col = "Maturity Date" ->
            {Str(<<>>), Str(<<"1", "2", "/", "3", "1", "/", "2", "0", "3", "0">>),
             Str(<<"1", "5", "/", "0", "1", "/", "2", "0", "2", "4">>), Int_(42)}
      [] excel_col = "New Const?" ->
            {Str(<<>>), Str(<<"Y", "e", "s">>), Str(<<"m", "a", "y", "b", "e">>)}
      [] excel_col = "Units" ->
            {Str(<<>>), Str(<<"4", "2", ".", "9">>), Str(<<"x", "y", "z">>), Str(<<"i", "n", "f">>)}
      [] excel_col = "Baths" ->
            {Str(<<>>), Str(<<"1", ".", "5">>), Str(<<"x">>)}
      [] OTHER -> {Str(<<"x">>)}

\* the rows of a spreadsheet with the columns h: every Asset ID beside
\* missing cells, and every cell of every other column beside the Asset ID A1
RowsFor(h) ==
    {[c \in h |-> IF c = "Asset ID" THEN a ELSE Missing] : a \in AssetIds}
    \cup
    UNION {{[c \in h |-> IF c = "Asset ID" THEN Str(<<"A", "1">>)
                         ELSE IF c = col THEN v ELSE Missing] : v \in CellsFor(col)}
           : col \in h \ {"Asset ID"}}

Init ==
    /\ arg = Missing
    /\ fn = "none"
    /\ ret = None
    /\ header \in {{"Asset ID"} \cup extra : extra \in HeaderChoices}
    /\ data \in UNION {[1..n -> RowsFor(header)] : n \in 0..MaxRows}
    /\ clean_df = <<>>
    /\ idx = 0
    /\ entry = 0
    /\ columns = <<>>
    /\ values = <<>>
    /\ f = <<>>
    /\ pc = "read"

Statement(stmt, cols, vals) == [stmt |-> stmt, columns |-> cols, values |-> vals]

\* dropna(how='all')
AllMissing(row) == \A c \in DOMAIN row : row[c].k = "missing"

\* clean_df['Asset ID'].notna() & (clean_df['Asset ID'] != '')
HasAssetId(row) == ~IsBlank(row["Asset ID"])

\* read the spreadsheet, drop the empty rows and the rows without an Asset ID
ReadCsv ==
    /\ pc = "read"
    /\ clean_df' = SelectSeq(data, LAMBDA row : ~AllMissing(row) /\ HasAssetId(row))
    /\ pc' = "open"
    /\ UNCHANGED <<normVars, header, data, idx, entry, columns, values, f>>

\* open the output and write its first comment
OpenOutput ==
    /\ pc = "open"
    /\ f' = <<Statement("COMMENT", <<>>, <<>>)>>
    /\ pc' = "rows"
    /\ UNCHANGED <<normVars, header, data, clean_df, idx, entry, columns, values>>

\* the head of the loop over the rows: a row without an Asset ID is passed
\* over, any other row starts with empty lists
NextRow ==
    /\ pc = "rows"
    /\ idx < Len(clean_df)
    /\ idx' = idx + 1
    /\ IF IsBlank(clean_df[idx + 1]["Asset ID"])
       THEN UNCHANGED <<entry, columns, values, pc>>
       ELSE /\ entry' = 1
            /\ columns' = <<>>
            /\ values' = <<>>
            /\ pc' = "entry"
    /\ UNCHANGED <<normVars, header, data, clean_df, f>>

\* ProcessEntry with columns.append inside the branch of the non-empty cell
ProcessEntryMisplacedAppend ==
    /\ pc = "entry"
    /\ entry <= Len(column_mapping)
    /\ LET excel_col == column_mapping[entry][1]
           sql_col   == column_mapping[entry][2]
           rendered  == RenderCell(sql_col, clean_df[idx][excel_col])
       IN  IF excel_col \notin header
           THEN entry' = entry + 1 /\ UNCHANGED <<columns, values, pc>>
           ELSE IF rendered.k = "raise"
           THEN pc' = "aborted" /\ UNCHANGED <<entry, columns, values>>
           ELSE /\ values' = Append(values, rendered.s)
                /\ columns' = IF IsBlank(clean_df[idx][excel_col]) THEN columns
                              ELSE Append(columns, sql_col)
                /\ entry' = entry + 1
                /\ pc' = pc
    /\ UNCHANGED <<normVars, header, data, clean_df, idx, f>>

\* one pass of the loop over column_mapping: a column the spreadsheet has
\* adds one value and one column; an exception ends the script
ProcessEntry ==
    /\ pc = "entry"
    /\ entry <= Len(column_mapping)
    /\ LET excel_col == column_mapping[entry][1]
           sql_col   == column_mapping[entry][2]
           rendered  == RenderCell(sql_col, clean_df[idx][excel_col])
       IN  IF excel_col \notin header
           THEN entry' = entry + 1 /\ UNCHANGED <<columns, values, pc>>
           ELSE IF rendered.k = "raise"
           THEN pc' = "aborted" /\ UNCHANGED <<entry, columns, values>>
           ELSE /\ values' = Append(values, rendered.s)
                /\ columns' = Append(columns, sql_col)
                /\ entry' = entry + 1
                /\ pc' = pc
    /\ UNCHANGED <<normVars, header, data, clean_df, idx, f>>

\* the end of the loop over column_mapping: the INSERT statement of the row
WriteInsert ==
    /\ pc = "entry"
    /\ entry > Len(column_mapping)
    /\ f' = IF columns # <<>> THEN Append(f, Statement("INSERT", columns, values)) ELSE f
    /\ pc' = "rows"
    /\ UNCHANGED <<normVars, header, data, clean_df, idx, entry, columns, values>>

\* after the last row: the comment and the UPDATE statement
WriteUpdate ==
    /\ pc = "rows"
    /\ idx = Len(clean_df)
    /\ f' = f \o <<Statement("COMMENT", <<>>, <<>>), Statement("UPDATE", <<>>, <<>>)>>
    /\ pc' = "done"
    /\ UNCHANGED <<normVars, header, data, clean_df, idx, entry, columns, values>>

Next ==
    \/ ReadCsv
    \/ OpenOutput
    \/ NextRow
    \/ ProcessEntry
    \/ WriteInsert
    \/ WriteUpdate

Spec == Init /\ [][Next]_vars

---------------------------------------------------------------------------
\* Properties of the value normalizer (checked under NormSpec)

Called == fn # "none"

\* C1: no conversion function ever raises: every call returns a value or None
C1_NeverRaises == Called => ret.k # "raise"

\* the remainder of a text with a percent sign parses as a decimal
PercentParses(v) ==
    /\ v.k = "str"
    /\ Contains(v.s, "%")
    /\ ParseFloat(Replace(v.s, "%", <<>>)).k = "float"

\* C2: clean_percentage returns the decimal before the percent sign of a text
\* that has one and parses, and None for every other input
C2_PercentageNeedsSign ==
    fn = "clean_percentage" =>
        IF PercentParses(arg)
        THEN ret = ParseFloat(Replace(arg.s, "%", <<>>))
        ELSE ret = None

\* a missing raw value or the empty string
MissingOrEmpty(v) ==
    \/ v.k = "missing"
    \/ v.k = "float" /\ v.cls = "nan"
    \/ v.k = "str" /\ Len(v.s) = 0

\* C4: each of the six functions returns None for a missing value and for
\* the empty string
C4_BlankIsAbsent == Called /\ MissingOrEmpty(arg) => ret = None

C4_Witness ==
    /\ fn = "clean_percentage"
    /\ arg.k = "str"
    /\ Len(arg.s) = 0
    /\ ret = None

\* the text begins with "(" and ends with ")"
Wrapped(c) == Len(c) >= 2 /\ c[1] = "(" /\ c[Len(c)] = ")"

IsNegative(r) == r.k = "float" /\ r.sg < 0

\* C5: clean_currency strips commas, dollar signs and whitespace; a text
\* wrapped in parentheses is parsed with a leading minus sign in their place;
\* a text with parentheses that do not wrap it never becomes a negative
\* number; a text without parentheses is parsed as it is; a failed parse is None
C5_ParenthesesWrap ==
    fn = "clean_currency" /\ arg.k = "str" /\ Len(arg.s) > 0 =>
        LET c == SelectSeq(arg.s, LAMBDA ch : ch \notin {",", "$", " ", "\t", "\n"})
        IN  IF Wrapped(c) THEN ret = FloatOrNone(<<"-">> \o SubSeq(c, 2, Len(c) - 1))
            ELSE IF Contains(c, "(") \/ Contains(c, ")") THEN ~IsNegative(ret)
            ELSE ret = FloatOrNone(c)

\* the calendar has the day d in the month mo of the year y
OnCalendar(y, mo, d) ==
    /\ y \in 1..9999
    /\ mo \in 1..12
    /\ d >= 1
    /\ d <= (IF mo = 2 THEN (IF y % 4 = 0 /\ (y % 100 # 0 \/ y % 400 = 0) THEN 29 ELSE 28)
             ELSE IF mo \in {4, 6, 9, 11} THEN 30 ELSE 31)

\* the year a year text stands for: four digits as written, two digits in
\* 1969..2068
YearOf(y) ==
    IF Len(y) = 4 THEN ToNat(y) ELSE IF ToNat(y) <= 68 THEN 2000 + ToNat(y) ELSE 1900 + ToNat(y)

\* what clean_date is to return for the month, day and year texts in the
\* order and around the separator given
ExpectedDate(mo, d, y, sep, yearFirst) ==
    IF /\ (yearFirst <=> sep = "-")
       /\ (yearFirst => Len(y) = 4)
       /\ OnCalendar(YearOf(y), ToNat(mo), ToNat(d))
    THEN Date(YearOf(y), ToNat(mo), ToNat(d))
    ELSE None

\* C6: clean_date returns the date of the first of the formats m/d/Y, m/d/y,
\* Y-m-d that parses, None when none parses and None for every input that is
\* not a text
C6_DateFirstFormatWins ==
    fn = "clean_date" =>
        /\ arg.k # "str" => ret = None
        /\ arg.k = "str" /\ ret # None =>
               \E i \in 1..Len(DateFormats) :
                   /\ Strptime(arg.s, DateFormats[i]) = ret
                   /\ \A j \in 1..(i - 1) : Strptime(arg.s, DateFormats[j]).k # "date"
        /\ arg.k = "str" /\ ret = None =>
               \A i \in 1..Len(DateFormats) : Strptime(arg.s, DateFormats[i]).k # "date"
        /\ \A mo \in MonthTexts, d \in DayTexts, y \in YearTexts, sep \in {"/", "-"} :
               /\ arg = Str(mo \o <<sep>> \o d \o <<sep>> \o y)
                      => ret = ExpectedDate(mo, d, y, sep, FALSE)
               /\ arg = Str(y \o <<sep>> \o mo \o <<sep>> \o d)
                      => ret = ExpectedDate(mo, d, y, sep, TRUE)

C6_Witness ==
    /\ fn = "clean_date"
    /\ arg = Str(<<"0", "1", "/", "1", "5", "/", "2", "4">>)
    /\ ret = Date(2024, 1, 15)

\* the int n is the float x cut off toward zero: |n| <= |x| < |n| + 1, with
\* the sign of x unless n is zero
IsTruncationOf(n, x) ==
    /\ n.k = "int"
    /\ x.k = "float"
    /\ x.cls = "fin"
    /\ IF x.x >= 0
       THEN n.m = x.m /\ n.x = x.x
       ELSE IF -x.x > 9
       THEN n.m = 0
       ELSE /\ n.m * Pow10(n.x) * Pow10(-x.x) <= x.m
            /\ x.m < (n.m * Pow10(n.x) + 1) * Pow10(-x.x)
    /\ n.sg = (IF n.m = 0 THEN 1 ELSE x.sg)

\* C7 as stated: clean_integer returns the truncation of every input that
\* parses as a floating-point number, and None for every input that does not
C7_TruncatesEveryFloat ==
    fn = "clean_integer" /\ ~MissingOrEmpty(arg) =>
        IF ParseFloat(PyStr(arg)).k = "float"
        THEN IsTruncationOf(ret, ParseFloat(PyStr(arg)))
        ELSE ret = None

\* C7 amended: clean_integer returns the truncation toward zero of every
\* input that parses as a finite floating-point number, None for every input
\* that does not parse or parses as not-a-number, and no integer for an
\* input that parses as an infinity
C7_TruncatesFiniteFloat ==
    fn = "clean_integer" /\ ~MissingOrEmpty(arg) =>
        LET x == ParseFloat(PyStr(arg))
        IN  /\ x.k = "float" /\ x.cls = "fin" => IsTruncationOf(ret, x)
            /\ x.k = "raise" \/ (x.k = "float" /\ x.cls = "nan") => ret = None
            /\ x.k = "float" /\ x.cls = "inf" => ret.k # "int"
            /\ arg = Str(<<"4", "2", ".", "9">>) => ret = Int_(42)
            /\ arg = Str(<<"-", "4", "2", ".", "9">>) => ret = Int_(-42)

C7_Witness ==
    /\ fn = "clean_integer"
    /\ arg = Str(<<"-", "4", "2", ".", "9">>)
    /\ ret = Int_(-42)

---------------------------------------------------------------------------
\* Properties of the row emitter (checked under Spec)

\* the spreadsheet column of a destination column
SourceOf(sql_col) ==
    column_mapping[CHOOSE i \in 1..Len(column_mapping) : column_mapping[i][2] = sql_col][1]

\* the cell of the row in progress behind the i-th entry of values
CellAt(i) == clean_df[idx][SourceOf(columns[i])]

\* the value has no reading in the declared type: a percentage is a text with
\* a percent sign whose remainder is a decimal; for the other types the
\* cleaning function finds no value
Unparseable(type, value) ==
    IF type = "Percentage" THEN ~PercentParses(value) ELSE Clean(type, value) = None

\* C3: in a column of declared type Currency, Percentage, Date, Boolean,
\* Integer or Decimal, a missing, empty or unparseable cell is written as NULL
C3_UnparseableIsNull ==
    pc = "entry" =>
        \A i \in 1..Len(values) :
            LET type == SemanticType(columns[i])
            IN  /\ type # "Text"
                /\ (MissingOrEmpty(CellAt(i)) \/ Unparseable(type, CellAt(i)))
                => values[i] = <<"N", "U", "L", "L">>

\* the INSERT statements of the output, in the order written
Inserts == SelectSeq(f, LAMBDA st : st.stmt = "INSERT")

\* the rows of the spreadsheet that have an Asset ID, in the order read
KeyedRows == SelectSeq(data, LAMBDA row : ~MissingOrEmpty(row["Asset ID"]))

\* the value of the column in the statement, << >> when it has no such column
ValueOf(st, sql_col) ==
    IF \E i \in 1..Len(st.columns) : st.columns[i] = sql_col
    THEN st.values[CHOOSE i \in 1..Len(st.columns) : st.columns[i] = sql_col]
    ELSE <<>>

RECURSIVE Doubled(_)
\* the text with each single quote written twice
Doubled(s) ==
    IF s = <<>> THEN <<>>
    ELSE (IF s[1] = "'" THEN <<"'", "'">> ELSE <<s[1]>>) \o Doubled(Tail(s))

\* C8: when the script has ended, the output holds one INSERT for each row
\* with an Asset ID and none for any other row, in the order of the rows, and
\* one UPDATE statement, after the last INSERT
C8_OneInsertPerKeyedRow ==
    pc \in {"done", "aborted"} =>
        /\ Len(Inserts) = Len(KeyedRows)
        /\ \A i \in 1..Len(Inserts) :
               i <= Len(KeyedRows) =>
                   ValueOf(Inserts[i], "asset_id")
                       = <<"'">> \o Doubled(PyStr(KeyedRows[i]["Asset ID"])) \o <<"'">>
        /\ Len(f) > 0
        /\ f[Len(f)].stmt = "UPDATE"
        /\ Cardinality({i \in 1..Len(f) : f[i].stmt = "UPDATE"}) = 1

RECURSIVE QuotesPaired(_)
\* no single quote of the text stands alone: the quotes come in pairs
QuotesPaired(s) ==
    IF s = <<>> THEN TRUE
    ELSE IF s[1] # "'" THEN QuotesPaired(Tail(s))
    ELSE Len(s) >= 2 /\ s[2] = "'" /\ QuotesPaired(SubSeq(s, 3, Len(s)))

RECURSIVE Undoubled(_)
\* the text with each pair of single quotes read as one
Undoubled(s) ==
    IF s = <<>> THEN <<>>
    ELSE IF s[1] = "'" /\ Len(s) >= 2 /\ s[2] = "'" THEN <<"'">> \o Undoubled(SubSeq(s, 3, Len(s)))
    ELSE <<s[1]>> \o Undoubled(Tail(s))

\* the text is one SQL string literal holding the text t
IsLiteralOf(v, t) ==
    /\ Len(v) >= 2
    /\ v[1] = "'"
    /\ v[Len(v)] = "'"
    /\ QuotesPaired(SubSeq(v, 2, Len(v) - 1))
    /\ Undoubled(SubSeq(v, 2, Len(v) - 1)) = t

\* C9: the value of a non-empty cell of a text column is the text of the
\* cell between single quotes with every single quote of the text doubled, so
\* that no single quote stands alone between the enclosing quotes
C9_TextIsQuoted ==
    /\ pc = "entry" =>
           \A i \in 1..Len(values) :
               SemanticType(columns[i]) = "Text" /\ ~MissingOrEmpty(CellAt(i))
               => IsLiteralOf(values[i], PyStr(CellAt(i)))
    /\ \A n \in 1..Len(f) : \A i \in 1..Len(f[n].values) :
           SemanticType(f[n].columns[i]) = "Text" /\ f[n].values[i] # <<"N", "U", "L", "L">>
           => /\ Len(f[n].values[i]) >= 2
              /\ QuotesPaired(SubSeq(f[n].values[i], 2, Len(f[n].values[i]) - 1))

C9_Witness ==
    /\ pc = "entry"
    /\ "Portfolio Name" \in header
    /\ clean_df[idx]["Portfolio Name"] = Str(<<"O", "'", "B">>)
    /\ Len(values) = 2
    /\ values[2] = <<"'", "O", "'", "'", "B", "'">>

RECURSIVE PresentColumns(_)
\* the destination names of the first n mapping entries whose spreadsheet
\* column is in the header, in the order of the mapping
PresentColumns(n) ==
    IF n = 0 THEN <<>>
    ELSE IF column_mapping[n][1] \in header
    THEN Append(PresentColumns(n - 1), column_mapping[n][2])
    ELSE PresentColumns(n - 1)

\* C10: the columns of a row are the destination names of the mapping
\* entries seen so far whose spreadsheet column exists, in mapping order, with
\* one value per column; every INSERT statement lists the columns of all such
\* entries and as many values
C10_ColumnsMatchValues ==
    /\ Len(columns) = Len(values)
    /\ pc = "entry" => columns = PresentColumns(entry - 1)
    /\ \A n \in 1..Len(f) :
           f[n].stmt = "INSERT" =>
               /\ f[n].columns = PresentColumns(Len(column_mapping))
               /\ Len(f[n].values) = Len(f[n].columns)

C10_Witness ==
    /\ pc = "done"
    /\ \E n \in 1..Len(f) :
           /\ f[n].stmt = "INSERT"
           /\ f[n].columns = <<"asset_id", "purchase_price">>
           /\ f[n].values = <<<<"'", "A", "1", "'">>, <<"N", "U", "L", "L">>>>

=============================================================================
